---- MODULE Spec2Model ----
(***************************************************************************)
(* A model of the plotting utilities of atmos-tools (atmos/plots.py) and   *)
(* of the plotting part of the package facade (atmos/__init__.py).         *)
(*                                                                         *)
(* Every operation of the module is one action.  The state is the call    *)
(* being made (call: the operation and its arguments) and what it has      *)
(* produced (ret: pending, or the returned value or the exception raised,  *)
(* and the plotting primitives that were invoked before the call ended).   *)
(*                                                                         *)
(* Numbers are integers standing for the real values the code works on;    *)
(* quotients are taken exactly before math.floor / math.ceil is applied,   *)
(* as Python's true division does, and the 0.1 * step margin of np.arange  *)
(* is kept by computing array lengths in tenths.  Float values that have   *)
(* a sign of their own (negative zero) are modelled as sign and magnitude  *)
(* where the code formats them (latlon_labels).                            *)
(***************************************************************************)
EXTENDS Integers, Sequences, FiniteSets

VARIABLES call, ret

vars == <<call, ret>>

----------------------------------------------------------------------------
(* Bounds of the model *)

\* axis limits are the multiples of AxStep in -MaxAx*AxStep .. MaxAx*AxStep
AxStep == 25
MaxAx == 8
\* nmax is drawn from 1..MaxN and the default
MaxN == 3
\* data values are the integers in -MaxData..MaxData
MaxData == 7
\* contour intervals are 1..MaxCint
MaxCint == 3
\* label values have magnitude at most MaxMag, label lists at most MaxLen long
MaxMag == 2
MaxLen == 2

\* default of autoticks' nmax
DefaultNmax == 8

----------------------------------------------------------------------------
(* Arithmetic helpers *)

Abs(x) == IF x < 0 THEN -x ELSE x

\* math.floor(a / b) and math.ceil(a / b) for b > 0 (a / b the exact quotient)
FloorDiv(a, b) == a \div b

CeilDiv(a, b) == -((-a) \div b)

SetMax(S) == CHOOSE x \in S : \A y \in S : y <= x

SetMin(S) == CHOOSE x \in S : \A y \in S : x <= y

\* np.arange(start, stop, step) with stop given in tenths (stop10 = 10 * stop):
\* ceil((stop - start) / step) elements start, start + step, ...
ArangeLen(start, stop10, step) ==
    LET n == CeilDiv(stop10 - 10 * start, 10 * step)
    IN  IF n > 0 THEN n ELSE 0

Arange(start, stop10, step) ==
    [i \in 1..ArangeLen(start, stop10, step) |-> start + (i - 1) * step]

\* str.lower() on the axis names the model uses
Lower(s) ==
    CASE s = "LAT" -> "lat"
      [] s = "LON" -> "lon"
      [] s = "Pres" -> "pres"
      [] OTHER -> s

----------------------------------------------------------------------------
(* autoticks *)

\* the candidate spacings of an axis type (<<>>: the axis type is invalid)
WList(axtype) ==
    IF Lower(axtype) = "lon" \/ Lower(axtype) = "lat" THEN <<10, 15, 30, 60>>
    ELSE IF Lower(axtype) = "pres" THEN <<50, 100, 200>>
    ELSE <<>>

\* ntick of the loop body for candidate w
NTick(axmin, axmax, w) == FloorDiv(axmax, w) - CeilDiv(axmin, w) + 1

\* the loop "for w in wlist: ... if ntick <= nmax: width = w; break":
\* the first candidate that fits, 0 when the loop ends without setting width
AutoWidth(wlist, axmin, axmax, nmax) ==
    LET fits == {i \in 1..Len(wlist) : NTick(axmin, axmax, wlist[i]) <= nmax}
    IN  IF fits = {} THEN 0 ELSE wlist[SetMin(fits)]

\* Ticks without the 0.1*width margin on the upper end of np.arange
Ticks_NoMargin(axmin, axmax, width) ==
    LET n1 == CeilDiv(axmin, width)
        n2 == FloorDiv(axmax, width)
    IN  Arange(n1 * width, 10 * n2 * width, width)

\* ticks = np.arange(n1*width, (n2+0.1)*width, width)
Ticks(axmin, axmax, width) ==
    LET n1 == CeilDiv(axmin, width)
        n2 == FloorDiv(axmax, width)
    IN  Arange(n1 * width, (10 * n2 + 1) * width, width)

\* autoticks(axtype, axmin, axmax, width, nmax); width = 0 stands for a width
\* that is omitted (None) or zero, both of which take the "not width" branch.
\* When no candidate fits, width is still None at "n1*width": TypeError.
autoticks(axtype, axmin, axmax, width, nmax) ==
    IF width = 0
    THEN IF WList(axtype) = <<>>
         THEN [status |-> "ValueError", width |-> 0, ticks |-> <<>>]
         ELSE LET w == AutoWidth(WList(axtype), axmin, axmax, nmax)
              IN  IF w = 0
                  THEN [status |-> "TypeError", width |-> 0, ticks |-> <<>>]
                  ELSE [status |-> "ok", width |-> w,
                        ticks |-> Ticks(axmin, axmax, w)]
    ELSE [status |-> "ok", width |-> width,
          ticks |-> Ticks(axmin, axmax, width)]

----------------------------------------------------------------------------
(* clevels *)

\* CBounds with the quotient of the symmetric bound rounded down
CBounds_RoundDown(data, cint, posneg, symmetric) ==
    LET cabs == FloorDiv(SetMax({Abs(x) : x \in data}), cint) * cint
        lo == IF symmetric THEN -cabs ELSE FloorDiv(SetMin(data), cint) * cint
        hi == IF symmetric THEN cabs ELSE CeilDiv(SetMax(data), cint) * cint
    IN  [cmin |-> IF posneg = "pos" THEN 0 ELSE lo,
         cmax |-> IF posneg = "neg" THEN 0 ELSE hi]

\* CBounds with the posneg clamps left out
CBounds_NoClamp(data, cint, posneg, symmetric) ==
    LET cabs == CeilDiv(SetMax({Abs(x) : x \in data}), cint) * cint
        lo == IF symmetric THEN -cabs ELSE FloorDiv(SetMin(data), cint) * cint
        hi == IF symmetric THEN cabs ELSE CeilDiv(SetMax(data), cint) * cint
    IN  [cmin |-> lo, cmax |-> hi]

\* cmin, cmax of "Define max and min contour levels"
CBounds(data, cint, posneg, symmetric) ==
    LET cabs == CeilDiv(SetMax({Abs(x) : x \in data}), cint) * cint
        lo == IF symmetric THEN -cabs ELSE FloorDiv(SetMin(data), cint) * cint
        hi == IF symmetric THEN cabs ELSE CeilDiv(SetMax(data), cint) * cint
    IN  [cmin |-> IF posneg = "pos" THEN 0 ELSE lo,
         cmax |-> IF posneg = "neg" THEN 0 ELSE hi]

\* OmitZero that deletes the first level instead of the zero level
OmitZero_First(clev) == IF clev = <<>> THEN clev ELSE Tail(clev)

\* np.delete(clev, np.where(clev == 0))
OmitZero(clev) == SelectSeq(clev, LAMBDA x : x # 0)

\* clevels without the 0.1*cint margin on the upper end of np.arange
clevels_NoMargin(data, cint, posneg, symmetric, omitzero) ==
    LET b == CBounds(data, cint, posneg, symmetric)
        clev == Arange(b.cmin, 10 * b.cmax, cint)
    IN  IF omitzero THEN OmitZero(clev) ELSE clev

clevels(data, cint, posneg, symmetric, omitzero) ==
    LET b == CBounds(data, cint, posneg, symmetric)
        clev == Arange(b.cmin, 10 * b.cmax + cint, cint)
    IN  IF omitzero THEN OmitZero(clev) ELSE clev

----------------------------------------------------------------------------
(* Plotting primitives: what a call asked matplotlib / Basemap to do *)

\* a primitive invoked without a levels argument
Prim(name) == [prim |-> name, hasLev |-> FALSE, lev |-> <<>>]

\* a contouring primitive invoked with the levels argument lev
PrimLev(name, lev) == [prim |-> name, hasLev |-> TRUE, lev |-> lev]

\* The value of the clev argument: None, a scalar (float or int) or a sequence
\* (list or ndarray).  "isinstance(clev, float) or isinstance(clev, int)"
IsScalar(clev) == clev.kind = "float" \/ clev.kind = "int"

\* "if clev is None: prim(x, y, data, ...) else: prim(x, y, data, clev, ...)"
\* where lev is the value clev holds when the primitive is reached
Contour(name, clev, lev) ==
    IF clev.kind = "None" THEN Prim(name) ELSE PrimLev(name, lev)

\* lat, lon (or plev) are read from data when data is an xray.DataArray
GridOf(dataKind) == IF dataKind = "DataArray" THEN "data" ELSE "args"

----------------------------------------------------------------------------
(* init_latlon *)

init_latlon(lat1, lat2, lon1, lon2) ==
    LET xticks == autoticks("lon", lon1, lon2, 0, DefaultNmax)
        yticks == autoticks("lat", lat1, lat2, 0, DefaultNmax)
        made == <<Prim("Basemap"), Prim("drawcoastlines")>>
    IN  IF xticks.status # "ok"
        THEN [status |-> xticks.status, calls |-> made]
        ELSE IF yticks.status # "ok"
        THEN [status |-> yticks.status, calls |-> made]
        ELSE [status |-> "ok", calls |-> made \o <<Prim("mapticks")>>]

----------------------------------------------------------------------------
(* contourf_latlon, contour_latlon *)

\* contour_latlon and contourf_latlon from the map initialisation on: m is
\* created by init_latlon when it is not given, then the primitive is called
DrawOnMap(prim, clev, lev, mGiven, axlims, after) ==
    LET m == IF mGiven THEN [status |-> "ok", calls |-> <<>>]
             ELSE init_latlon(axlims[1], axlims[2], axlims[3], axlims[4])
    IN  IF m.status # "ok"
        THEN m
        ELSE [status |-> "ok",
              calls |-> m.calls \o <<Contour(prim, clev, lev)>> \o after]

\* contourf_latlon that asks clevels for non-symmetric levels whatever
\* symmetric is
contourf_latlon_NoSymmetric(data, dataKind, clev, mGiven, symmetric, axlims) ==
    LET lev == IF IsScalar(clev)
               THEN clevels(data, clev.val, "both", FALSE, FALSE)
               ELSE clev.seq
        r == DrawOnMap("contourf", clev, lev, mGiven, axlims,
                       <<Prim("colorbar")>>)
    IN  [status |-> r.status, grid |-> GridOf(dataKind), calls |-> r.calls]

contourf_latlon(data, dataKind, clev, mGiven, symmetric, axlims) ==
    LET lev == IF IsScalar(clev)
               THEN clevels(data, clev.val, "both", symmetric, FALSE)
               ELSE clev.seq
        r == DrawOnMap("contourf", clev, lev, mGiven, axlims,
                       <<Prim("colorbar")>>)
    IN  [status |-> r.status, grid |-> GridOf(dataKind), calls |-> r.calls]

contour_latlon(data, dataKind, clev, mGiven, axlims) ==
    LET lev == IF IsScalar(clev)
               THEN clevels(data, clev.val, "both", FALSE, FALSE)
               ELSE clev.seq
        r == DrawOnMap("contour", clev, lev, mGiven, axlims, <<>>)
    IN  [status |-> r.status, grid |-> GridOf(dataKind), calls |-> r.calls]

----------------------------------------------------------------------------
(* init_latpres, contour_latpres *)

\* topo_ps is "ndarray", "list" or "None"
init_latpres(latmin, latmax, pmin, pmax, topo_ps) ==
    LET xticks == autoticks("lat", latmin, latmax, 0, DefaultNmax)
        yticks == autoticks("pres", pmin, pmax, 0, DefaultNmax)
        axes == <<Prim("xlim"), Prim("xticks"), Prim("ylim"), Prim("yticks"),
                  Prim("invert_yaxis"), Prim("xlabel"), Prim("ylabel")>>
        fill == IF topo_ps = "ndarray" \/ topo_ps = "list"
                THEN <<Prim("fill_between")>> ELSE <<>>
    IN  IF xticks.status # "ok"
        THEN [status |-> xticks.status, calls |-> <<>>]
        ELSE IF yticks.status # "ok"
        THEN [status |-> yticks.status, calls |-> <<>>]
        ELSE [status |-> "ok", calls |-> axes \o fill]

\* the "Topography" block: topo is an ndarray, a list, a DataArray or None.
\* In the last case "topo_ps, topo_lat = None" unpacks None: TypeError.
Topography(topo) ==
    IF topo = "ndarray" \/ topo = "list"
    THEN [status |-> "ok", topo_ps |-> topo, topo_lat |-> "lat"]
    ELSE IF topo = "DataArray"
    THEN [status |-> "ok", topo_ps |-> "ndarray", topo_lat |-> "topo"]
    ELSE [status |-> "TypeError", topo_ps |-> "None", topo_lat |-> "None"]

contour_latpres(data, dataKind, clev, topo, axlims) ==
    LET t == Topography(topo)
        lev == IF IsScalar(clev)
               THEN clevels(data, clev.val, "both", FALSE, FALSE)
               ELSE clev.seq
        ax == init_latpres(axlims[1], axlims[2], axlims[3], axlims[4],
                           t.topo_ps)
    IN  IF t.status # "ok"
        THEN [status |-> t.status, grid |-> GridOf(dataKind),
              topo_lat |-> t.topo_lat, calls |-> <<>>]
        ELSE IF ax.status # "ok"
        THEN [status |-> ax.status, grid |-> GridOf(dataKind),
              topo_lat |-> t.topo_lat, calls |-> ax.calls]
        ELSE [status |-> "ok", grid |-> GridOf(dataKind),
              topo_lat |-> t.topo_lat,
              calls |-> ax.calls \o <<Contour("contour", clev, lev)>>]

----------------------------------------------------------------------------
(* latlon_labels *)

\* A float value is a sign and a magnitude (x.neg with x.mag = 0 is the float
\* -0.0).  "num >= 0"
NonNegative(x) == ~x.neg \/ x.mag = 0

\* abs(num)
FAbs(x) == [neg |-> FALSE, mag |-> x.mag]

\* "fmt % num" for whole-valued num: '%.0f' prints the sign bit of the float
\* and its magnitude, '%d' converts to int first, which has no negative zero
Format(fmt, x) ==
    IF fmt = "%d"
    THEN [minus |-> x.neg /\ x.mag # 0, digits |-> x.mag]
    ELSE [minus |-> x.neg, digits |-> x.mag]

degree_sign == "$^\\circ$"

\* the loop body without abs() in the negative branch
Label_NoAbs(fmt, pos, neg, num) ==
    LET x == Format(fmt, num)
    IN  [minus |-> x.minus, digits |-> x.digits, deg |-> degree_sign,
         suffix |-> IF NonNegative(num) THEN pos ELSE neg]

\* one pass of the loop body: the label of num
Label(fmt, pos, neg, num) ==
    LET x == IF NonNegative(num) THEN Format(fmt, num)
             ELSE Format(fmt, FAbs(num))
    IN  [minus |-> x.minus, digits |-> x.digits, deg |-> degree_sign,
         suffix |-> IF NonNegative(num) THEN pos ELSE neg]

latlon_labels(vals, latlon, fmt) ==
    IF Lower(latlon) = "lat"
    THEN [status |-> "ok",
          labels |-> [i \in DOMAIN vals |-> Label(fmt, "N", "S", vals[i])]]
    ELSE IF Lower(latlon) = "lon"
    THEN [status |-> "ok",
          labels |-> [i \in DOMAIN vals |-> Label(fmt, "E", "W", vals[i])]]
    ELSE [status |-> "ValueError", labels |-> <<>>]

----------------------------------------------------------------------------
(* The package facade: from plots import (...) *)

\* the names atmos/__init__.py imports from plots, in order
FacadePlotsNames ==
    <<"degree_sign", "latlon_labels", "latlon_str", "mapticks", "autoticks",
      "clevels", "cinterval", "climits", "colorbar_symm", "init_latlon",
      "geobox", "pcolor_latlon", "contourf_latlon", "contour_latlon",
      "init_latpres", "pcolor_latpres", "contourf_latpres", "contour_latpres",
      "stipple_pts">>

\* the names atmos/plots.py binds at module level
PlotsNames ==
    {"math", "np", "plt", "Basemap", "xray", "print_if",
     "autoticks", "mapticks", "clevels", "init_latlon", "pcolor_latlon",
     "contourf_latlon", "contour_latlon", "init_latpres", "contour_latpres",
     "pcolor_latpres", "contourf_latpres", "degree_sign", "latlon_labels",
     "contourf_timelat"}

\* the import statement binds the names in order and raises ImportError at
\* the first one the module does not have
import_from(names, module) ==
    LET missing == {i \in DOMAIN names : names[i] \notin module}
    IN  IF missing = {}
        THEN [status |-> "ok", name |-> "",
              bound |-> {names[i] : i \in DOMAIN names}]
        ELSE [status |-> "ImportError", name |-> names[SetMin(missing)],
              bound |-> {names[i] : i \in 1..(SetMin(missing) - 1)}]

----------------------------------------------------------------------------
(* Inputs *)

AxTypes == {"lat", "lon", "pres", "LAT", "Pres", "time"}

AxVals == {k * AxStep : k \in -MaxAx..MaxAx}

\* 0: width omitted
WidthVals == {0, 10, 25}

NmaxVals == (1..MaxN) \cup {DefaultNmax}

DataVals == -MaxData..MaxData

\* non-empty data sets, given by their values
DataSets == {{a, b} : a \in DataVals, b \in DataVals}

CintVals == 1..MaxCint

PosNegVals == {"both", "pos", "neg"}

DataKinds == {"ndarray", "DataArray"}

LevelSeqs == {<<>>, <<0>>, <<-1, 1>>}

ClevVals ==
    {[kind |-> "None", val |-> 0, seq |-> <<>>]}
    \cup [kind : {"float", "int"}, val : CintVals, seq : {<<>>}]
    \cup [kind : {"list", "ndarray"}, val : {0}, seq : LevelSeqs]

\* (lat1, lat2, lon1, lon2): the default, a region, and a range of longitudes
\* wider than the globe
LatLonLims == {<<-90, 90, 0, 360>>, <<0, 45, 60, 100>>, <<-90, 90, -180, 360>>}

\* (latmin, latmax, pmin, pmax): the default, a region, and a range of
\* pressures beyond the default
LatPresLims == {<<-90, 90, 0, 1000>>, <<0, 45, 100, 1000>>, <<-90, 90, 0, 2000>>}

TopoKinds == {"ndarray", "list", "DataArray", "None"}

Floats == [neg : BOOLEAN, mag : 0..MaxMag]

SeqsUpTo(S, n) == UNION {[1..k -> S] : k \in 0..n}

LabelAxes == {"lat", "lon", "LAT", "LON", "time"}

Formats == {"%.0f", "%d"}

----------------------------------------------------------------------------
(* The calls the model makes *)

AutoticksCalls ==
    [op : {"autoticks"}, axtype : AxTypes, axmin : AxVals, axmax : AxVals,
     width : WidthVals, nmax : NmaxVals]

ClevelsCalls ==
    [op : {"clevels"}, data : DataSets, cint : CintVals, posneg : PosNegVals,
     symmetric : BOOLEAN, omitzero : BOOLEAN]

ContourfLatlonCalls ==
    [op : {"contourf_latlon"}, data : DataSets, dataKind : DataKinds,
     clev : ClevVals, mGiven : BOOLEAN, symmetric : BOOLEAN,
     axlims : LatLonLims]

ContourLatlonCalls ==
    [op : {"contour_latlon"}, data : DataSets, dataKind : DataKinds,
     clev : ClevVals, mGiven : BOOLEAN, axlims : LatLonLims]

ContourLatpresCalls ==
    [op : {"contour_latpres"}, data : DataSets, dataKind : DataKinds,
     clev : ClevVals, topo : TopoKinds, axlims : LatPresLims]

LatlonLabelsCalls ==
    [op : {"latlon_labels"}, vals : SeqsUpTo(Floats, MaxLen),
     latlon : LabelAxes, fmt : Formats]

ImportCalls == [op : {"import_plots"}]

Pending == [status |-> "pending"]

----------------------------------------------------------------------------
(* Actions: a call is chosen, then the operation runs to its end *)

Init ==
    /\ \/ call \in AutoticksCalls
       \/ call \in ClevelsCalls
       \/ call \in ContourfLatlonCalls
       \/ call \in ContourLatlonCalls
       \/ call \in ContourLatpresCalls
       \/ call \in LatlonLabelsCalls
       \/ call \in ImportCalls
    /\ ret = Pending

Call_autoticks ==
    /\ ret = Pending
    /\ call.op = "autoticks"
    /\ ret' = autoticks(call.axtype, call.axmin, call.axmax, call.width,
                        call.nmax)
    /\ UNCHANGED call

Call_clevels ==
    /\ ret = Pending
    /\ call.op = "clevels"
    /\ ret' = [status |-> "ok",
               clev |-> clevels(call.data, call.cint, call.posneg,
                                call.symmetric, call.omitzero)]
    /\ UNCHANGED call

Call_contourf_latlon ==
    /\ ret = Pending
    /\ call.op = "contourf_latlon"
    /\ ret' = contourf_latlon(call.data, call.dataKind, call.clev,
                              call.mGiven, call.symmetric, call.axlims)
    /\ UNCHANGED call

Call_contour_latlon ==
    /\ ret = Pending
    /\ call.op = "contour_latlon"
    /\ ret' = contour_latlon(call.data, call.dataKind, call.clev, call.mGiven,
                             call.axlims)
    /\ UNCHANGED call

Call_contour_latpres ==
    /\ ret = Pending
    /\ call.op = "contour_latpres"
    /\ ret' = contour_latpres(call.data, call.dataKind, call.clev, call.topo,
                              call.axlims)
    /\ UNCHANGED call

Call_latlon_labels ==
    /\ ret = Pending
    /\ call.op = "latlon_labels"
    /\ ret' = latlon_labels(call.vals, call.latlon, call.fmt)
    /\ UNCHANGED call

Call_import_plots ==
    /\ ret = Pending
    /\ call.op = "import_plots"
    /\ ret' = import_from(FacadePlotsNames, PlotsNames)
    /\ UNCHANGED call

Next ==
    \/ Call_autoticks
    \/ Call_clevels
    \/ Call_contourf_latlon
    \/ Call_contour_latlon
    \/ Call_contour_latpres
    \/ Call_latlon_labels
    \/ Call_import_plots

Spec == Init /\ [][Next]_vars

----------------------------------------------------------------------------
(* Properties of autoticks *)

ValidAxTypes == {"lat", "lon", "pres"}

AutoticksDone == call.op = "autoticks" /\ ret # Pending

\* the candidate spacings the specification names for an axis type
Candidates(axtype) ==
    IF Lower(axtype) = "pres" THEN {50, 100, 200} ELSE {10, 15, 30, 60}

\* C1: for axtype lat, lon or pres, axmin <= axmax and nmax >= 1, autoticks
\* with width omitted returns ticks whose spacing w is the smallest candidate
\* for which floor(axmax/w) - ceil(axmin/w) + 1 <= nmax; there are at most
\* nmax ticks and each is a multiple of w.
C1_AutoWidthSmallestFit ==
    (/\ AutoticksDone
     /\ call.width = 0
     /\ Lower(call.axtype) \in ValidAxTypes
     /\ call.axmin <= call.axmax
     /\ call.nmax >= 1)
    => /\ ret.status = "ok"
       /\ ret.width \in Candidates(call.axtype)
       /\ NTick(call.axmin, call.axmax, ret.width) <= call.nmax
       /\ \A w \in Candidates(call.axtype) :
            NTick(call.axmin, call.axmax, w) <= call.nmax => ret.width <= w
       /\ Len(ret.ticks) <= call.nmax
       /\ \A i \in DOMAIN ret.ticks : ret.ticks[i] % ret.width = 0

\* C4: autoticks fails with ValueError for every axtype that is not lat, lon
\* or pres (case-insensitively), whatever axmin, axmax, width and nmax are,
\* an explicit width included.
C4_InvalidAxtypeAlwaysFails ==
    (AutoticksDone /\ Lower(call.axtype) \notin ValidAxTypes)
    => ret.status = "ValueError"

\* C11: for every tick width w > 0 in effect (chosen automatically, or given,
\* in which case it is used as given whatever nmax is) and every axmin, axmax,
\* autoticks returns exactly the ascending multiples of w from ceil(axmin/w)*w
\* to floor(axmax/w)*w: every multiple of w in [axmin, axmax], the upper one
\* included, nothing outside the interval, nothing when it holds no multiple.
C11_TicksAreTheMultiplesInRange ==
    (AutoticksDone /\ ret.status = "ok")
    => LET w == ret.width
           t == ret.ticks
       IN  /\ w > 0
           /\ call.width # 0 => w = call.width
           /\ \A i \in DOMAIN t :
                t[i] % w = 0 /\ call.axmin <= t[i] /\ t[i] <= call.axmax
           /\ \A i \in 1..(Len(t) - 1) : t[i + 1] = t[i] + w
           /\ \A x \in call.axmin..call.axmax :
                x % w = 0 => \E i \in DOMAIN t : t[i] = x

C11_Witness ==
    /\ AutoticksDone
    /\ ret.status = "ok"
    /\ call.width # 0
    /\ call.axmin % ret.width # 0
    /\ call.axmax % ret.width # 0
    /\ Len(ret.ticks) >= 3
    /\ Len(ret.ticks) > call.nmax

----------------------------------------------------------------------------
(* Properties of clevels *)

ClevelsDone == call.op = "clevels" /\ ret # Pending

MaxAbs(data) == SetMax({Abs(x) : x \in data})

First(s) == s[1]

Last(s) == s[Len(s)]

C10_OmitZeroRemovesOnlyZero ==
    (ClevelsDone /\ call.omitzero)
    => LET full == clevels(call.data, call.cint, call.posneg,
                           call.symmetric, FALSE)
           nz == {i \in DOMAIN full : full[i] # 0}
       IN  /\ \A i \in DOMAIN ret.clev : ret.clev[i] # 0
           /\ Len(ret.clev) = Cardinality(nz)
           /\ \A i \in nz :
                ret.clev[Cardinality({j \in nz : j <= i})] = full[i]

C10_Witness ==
    /\ ClevelsDone
    /\ call.omitzero
    /\ Len(ret.clev) >= 2
    /\ First(ret.clev) < 0
    /\ Last(ret.clev) > 0

----------------------------------------------------------------------------
(* Properties of the contour plots *)

ContourOps == {"contourf_latlon", "contour_latlon", "contour_latpres"}

\* the positions in the calls made at which a contouring primitive is called
ContourCalls(calls) ==
    {i \in DOMAIN calls : calls[i].prim \in {"contourf", "contour"}}

Made(calls, name) == \E i \in DOMAIN calls : calls[i].prim = name

\* C3: contour_latpres resolves topo in exactly three ways and then always
\* proceeds to axis setup and contour drawing: an array or list gives the
\* profile on the data's latitude grid, a Labeled Field gives its own values
\* and latitudes, topo omitted gives no profile and no ground shading; a call
\* with topo omitted completes without error.
C3_TopoResolvedThenDrawn ==
    (call.op = "contour_latpres" /\ ret # Pending)
    => /\ ret.status = "ok"
       /\ Made(ret.calls, "xticks")
       /\ Made(ret.calls, "contour")
       /\ call.topo \in {"ndarray", "list"}
          => ret.topo_lat = "lat" /\ Made(ret.calls, "fill_between")
       /\ call.topo = "DataArray"
          => ret.topo_lat = "topo" /\ Made(ret.calls, "fill_between")
       /\ call.topo = "None" => ~Made(ret.calls, "fill_between")

\* C7: contourf_latlon, contour_latlon and contour_latpres resolve clev the
\* same way: a scalar spacing becomes clevels(data, clev) (symmetric as asked
\* in contourf_latlon, non-symmetric in the other two), an explicit sequence
\* is passed to the primitive unchanged, an absent clev gives a call with no
\* levels argument; exactly one of the three cases applies.
C7_ClevResolution ==
    (call.op \in ContourOps /\ ret # Pending)
    => LET sym == IF call.op = "contourf_latlon" THEN call.symmetric
                  ELSE FALSE
           scalar == call.clev.kind \in {"float", "int"}
           explicit == call.clev.kind \in {"list", "ndarray"}
           absent == call.clev.kind = "None"
       IN  /\ Cardinality({n \in 1..3 : <<scalar, explicit, absent>>[n]}) = 1
           /\ ret.status = "ok" => Cardinality(ContourCalls(ret.calls)) = 1
           /\ \A i \in ContourCalls(ret.calls) :
                LET c == ret.calls[i]
                IN  /\ c.prim = IF call.op = "contourf_latlon"
                                 THEN "contourf" ELSE "contour"
                    /\ scalar => /\ c.hasLev
                                 /\ c.lev = clevels(call.data, call.clev.val,
                                                    "both", sym, FALSE)
                    /\ explicit => c.hasLev /\ c.lev = call.clev.seq
                    /\ absent => ~c.hasLev

C7_Witness ==
    /\ call.op = "contourf_latlon"
    /\ ret # Pending
    /\ call.clev.kind = "int"
    /\ call.symmetric
    /\ SetMin(call.data) > 0
    /\ \E i \in ContourCalls(ret.calls) : Len(ret.calls[i].lev) >= 3

----------------------------------------------------------------------------
(* Properties of latlon_labels *)

LabelsDone ==
    /\ call.op = "latlon_labels"
    /\ ret # Pending
    /\ Lower(call.latlon) \in {"lat", "lon"}

\* the suffixes of an axis: <<non-negative, negative>>
Suffixes(latlon) ==
    IF Lower(latlon) = "lat" THEN <<"N", "S">> ELSE <<"E", "W">>

\* the value is below zero
Negative(x) == x.neg /\ x.mag > 0

\* the value is the float negative zero
NegativeZero(x) == x.neg /\ x.mag = 0

\* one label per value in input order, the magnitude of the value as digits,
\* N/E for a value >= 0 and S/W for a value < 0
LabelPerValue ==
    /\ ret.status = "ok"
    /\ Len(ret.labels) = Len(call.vals)
    /\ \A i \in DOMAIN call.vals :
         /\ ret.labels[i].digits = call.vals[i].mag
         /\ ret.labels[i].suffix =
              IF Negative(call.vals[i]) THEN Suffixes(call.latlon)[2]
              ELSE Suffixes(call.latlon)[1]

\* C8 as stated: for axis lat or lon latlon_labels returns one label per
\* value in input order, suffixed N/E for a value >= 0 and S/W (on the
\* absolute value) for a value < 0, so that no label carries a minus sign.
C8_NoLabelHasMinus ==
    LabelsDone
    => /\ LabelPerValue
       /\ \A i \in DOMAIN ret.labels : ~ret.labels[i].minus

\* C8 amended: as stated, except that the float negative zero, which is
\* >= 0 and so formatted as given, keeps its minus sign under a format that
\* prints the sign of a float ('%.0f'); no other label carries a minus sign.
C8_MinusOnlyOnNegativeZero ==
    LabelsDone
    => /\ LabelPerValue
       /\ \A i \in DOMAIN ret.labels :
            ret.labels[i].minus
            <=> (NegativeZero(call.vals[i]) /\ call.fmt = "%.0f")

C8_Witness ==
    /\ LabelsDone
    /\ Len(ret.labels) = 2
    /\ Negative(call.vals[1])
    /\ ret.labels[1].suffix = "S"
    /\ ~Negative(call.vals[2])
    /\ call.vals[2].mag > 0
    /\ ret.labels[2].suffix = "N"

----------------------------------------------------------------------------
(* Properties of the facade *)

\* C9: every name the facade re-exports from the Plotting component is
\* defined by atmos/plots.py, so binding the re-export list never fails.
C9_FacadeNamesDefined ==
    (call.op = "import_plots" /\ ret # Pending)
    => /\ ret.status = "ok"
       /\ \A i \in DOMAIN FacadePlotsNames : FacadePlotsNames[i] \in ret.bound

====
